---- MODULE Spec2Model ----
(***************************************************************************)
(* Model of pdf_metadata_sync.py: extraction of the PDF info dictionary     *)
(* into the paperless metadata mapping (extract_pdf_metadata) and the       *)
(* synchronisation run of __main__ against the remote service               *)
(* (SimplePaperlessAPI).                                                    *)
(*                                                                          *)
(* A Python str is a sequence of one-character strings, a dict is a         *)
(* function whose domain is the set of its keys, None is an absent key or   *)
(* the id 0 (the remote service numbers its entities from 1).               *)
(***************************************************************************)
EXTENDS Integers, Sequences, FiniteSets, TLC

VARIABLES
    pdf,            \* reader.metadata: the PDF info dictionary of the source file
    has_token,      \* PAPERLESS_TOKEN is set in the environment
    is_pdf,         \* DOCUMENT_SOURCE_PATH ends with .pdf
    pc,             \* position of the run in __main__
    metadata,       \* result of extract_pdf_metadata
    doc,            \* the document get_document_by_id returned, its tags as ids
    updates,        \* the update payload being assembled
    existing_tags,  \* set of ids, line 223
    new_tag_ids,    \* list of ids, line 226
    idx,            \* position of the for loop of line 227 in metadata['tags']
    srv_tags,       \* remote service: the tag entities [id, name]
    srv_corrs,      \* remote service: the correspondent entities [id, name]
    srv_doc_tags,   \* remote service: tag ids of the target document
    next_id,        \* remote service: next entity id
    reqs,           \* HTTP requests issued by the current run, in order
    outcome,        \* how the current run ended (its last log line)
    exit_code,      \* exit status of the current run
    runs,           \* number of runs started
    faults          \* number of failed HTTP exchanges so far

vars == <<pdf, has_token, is_pdf, pc, metadata, doc, updates, existing_tags,
          new_tag_ids, idx, srv_tags, srv_corrs, srv_doc_tags, next_id, reqs,
          outcome, exit_code, runs, faults>>

----------------------------------------------------------------------------
(* Bounds of the model *)

\* longest generated /Keywords string
MaxKwLen == 4
\* number of runs of the script against the same document
MaxRuns == 2
\* number of HTTP exchanges that may fail over all runs
MaxFaults == 2

----------------------------------------------------------------------------
(* Python str and dict primitives *)

EmptyDict == <<>>

\* d.get(k) is truthy: the key is there and its value is not the empty str/list
truthy(d, k) == k \in DOMAIN d /\ d[k] # <<>>

\* d[k] = v
setitem(d, k, v) == (k :> v) @@ d

Whitespace == {" "}

RECURSIVE lstrip(_)
lstrip(s) ==
    IF s = <<>> THEN s
    ELSE IF Head(s) \in Whitespace THEN lstrip(Tail(s)) ELSE s

RECURSIVE rstrip(_)
rstrip(s) ==
    IF s = <<>> THEN s
    ELSE IF s[Len(s)] \in Whitespace THEN rstrip(SubSeq(s, 1, Len(s) - 1)) ELSE s

\* str.strip()
strip(s) == rstrip(lstrip(s))

\* str.split(sep) for a one-character separator: always at least one token
RECURSIVE split(_, _)
split(s, sep) ==
    IF \E i \in 1..Len(s) : s[i] = sep
    THEN LET i == CHOOSE i \in 1..Len(s) :
                      s[i] = sep /\ \A j \in 1..(i - 1) : s[j] # sep
         IN  <<SubSeq(s, 1, i - 1)>> \o split(SubSeq(s, i + 1, Len(s)), sep)
    ELSE <<s>>

\* str.replace(old, new): every non-overlapping occurrence, left to right
RECURSIVE replace(_, _, _)
replace(s, old, new) ==
    IF Len(s) < Len(old) THEN s
    ELSE IF SubSeq(s, 1, Len(old)) = old
         THEN new \o replace(SubSeq(s, Len(old) + 1, Len(s)), old, new)
         ELSE <<Head(s)>> \o replace(Tail(s), old, new)

\* s[:n]
prefix(s, n) == SubSeq(s, 1, IF Len(s) < n THEN Len(s) ELSE n)

\* [f(x) for x in s]
RECURSIVE strip_all(_)
strip_all(ts) ==
    IF ts = <<>> THEN <<>> ELSE <<strip(Head(ts))>> \o strip_all(Tail(ts))

----------------------------------------------------------------------------
(* datetime.strptime(date_str, '%Y%m%d%H%M%S') and datetime.isoformat()     *)

Digits == <<"0", "1", "2", "3", "4", "5", "6", "7", "8", "9">>

IsDigit(c) == \E n \in 1..10 : Digits[n] = c

DigitVal(c) == (CHOOSE n \in 1..10 : Digits[n] = c) - 1

RECURSIVE Num(_)
Num(s) == IF s = <<>> THEN 0
          ELSE 10 * Num(SubSeq(s, 1, Len(s) - 1)) + DigitVal(s[Len(s)])

AllDigits(s) == \A i \in 1..Len(s) : IsDigit(s[i])

\* the piece of s of length n that starts at position p (1-based), if any
Piece(s, p, n) == SubSeq(s, p, p + n - 1)

\* One directive of the format matches n characters of s at position p: the
\* regular expressions of _strptime.TimeRE for %m %d %H %M %S take two digits
\* whose value is in range, or else one digit.
FieldMatches(f, s, p, n) ==
    /\ p + n - 1 <= Len(s)
    /\ AllDigits(Piece(s, p, n))
    /\ LET v == Num(Piece(s, p, n))
       IN  CASE f = "m" -> IF n = 2 THEN v \in 1..12 ELSE v \in 1..9
             [] f = "d" -> IF n = 2 THEN v \in 1..31 ELSE v \in 1..9
             [] f = "H" -> IF n = 2 THEN v \in 0..23 ELSE TRUE
             [] f = "M" -> IF n = 2 THEN v \in 0..59 ELSE TRUE
             [] f = "S" -> IF n = 2 THEN v \in 0..61 ELSE TRUE

Widths == {w \in [1..5 -> {1, 2}] : TRUE}

FieldNames == <<"m", "d", "H", "M", "S">>

\* start of field k under the widths w (the year takes 4 characters)
FieldStart(w, k) ==
    5 + (IF k > 1 THEN w[1] ELSE 0) + (IF k > 2 THEN w[2] ELSE 0)
      + (IF k > 3 THEN w[3] ELSE 0) + (IF k > 4 THEN w[4] ELSE 0)

RegexMatches(s, w) ==
    /\ Len(s) >= 4
    /\ AllDigits(Piece(s, 1, 4))
    /\ \A k \in 1..5 : FieldMatches(FieldNames[k], s, FieldStart(w, k), w[k])

\* The match re.match finds: each directive tries its two-digit alternatives
\* before the one-digit one and backtracks, so the first match is the one
\* whose widths are greatest in lexicographic order.
Before(w, u) ==
    \E k \in 1..5 : w[k] > u[k] /\ \A j \in 1..(k - 1) : w[j] = u[j]

IsLeap(y) == (y % 4 = 0 /\ y % 100 # 0) \/ y % 400 = 0

DaysInMonth(y, m) ==
    IF m = 2 THEN (IF IsLeap(y) THEN 29 ELSE 28)
    ELSE IF m \in {4, 6, 9, 11} THEN 30 ELSE 31

NoDate == [ok |-> FALSE, year |-> 0, month |-> 0, day |-> 0,
           hour |-> 0, minute |-> 0, second |-> 0]

\* ok = FALSE is the ValueError: no match, unconverted data remains after the
\* match, or values that the datetime constructor rejects.
strptime(s) ==
    IF ~ \E w \in Widths : RegexMatches(s, w) THEN NoDate
    ELSE LET w == CHOOSE w \in Widths :
                     /\ RegexMatches(s, w)
                     /\ \A u \in Widths : RegexMatches(s, u) /\ u # w => Before(w, u)
             fld(k) == Num(Piece(s, FieldStart(w, k), w[k]))
             year == Num(Piece(s, 1, 4))
         IN  IF FieldStart(w, 5) + w[5] - 1 # Len(s) THEN NoDate
             ELSE IF year < 1 \/ fld(2) > DaysInMonth(year, fld(1)) \/ fld(5) > 59
                  THEN NoDate
                  ELSE [ok |-> TRUE, year |-> year, month |-> fld(1), day |-> fld(2),
                        hour |-> fld(3), minute |-> fld(4), second |-> fld(5)]

\* n written with (at least) two digits
Pad2(n) == <<Digits[((n \div 10) % 10) + 1], Digits[(n % 10) + 1]>>

Pad4(n) == Pad2(n \div 100) \o Pad2(n % 100)

\* datetime.isoformat() of a datetime without microseconds and timezone
isoformat(dt) ==
    Pad4(dt.year) \o <<"-">> \o Pad2(dt.month) \o <<"-">> \o Pad2(dt.day) \o <<"T">>
    \o Pad2(dt.hour) \o <<":">> \o Pad2(dt.minute) \o <<":">> \o Pad2(dt.second)

----------------------------------------------------------------------------
(* extract_pdf_metadata *)

\* width of YYYYMMDDHHMMSS
DateWidth == 14

author_field(md) ==
    IF truthy(md, "/Author") THEN ("correspondent" :> md["/Author"]) ELSE EmptyDict

title_field(md) ==
    IF truthy(md, "/Title") THEN ("title" :> md["/Title"])
    ELSE IF truthy(md, "/Subject") THEN ("title" :> md["/Subject"])
    ELSE EmptyDict

created_field(md) ==
    IF truthy(md, "/CreationDate")
    THEN LET date_str == prefix(replace(md["/CreationDate"], <<"D", ":">>, <<>>),
                                DateWidth)
             date == strptime(date_str)
         IN  IF date.ok THEN ("created" :> isoformat(date)) ELSE EmptyDict
    ELSE EmptyDict

tags_field(md) ==
    IF truthy(md, "/Keywords")
    THEN ("tags" :> strip_all(split(md["/Keywords"], ",")))
    ELSE EmptyDict

extract_pdf_metadata(md) ==
    IF DOMAIN md = {} THEN EmptyDict
    ELSE author_field(md) @@ title_field(md) @@ created_field(md) @@ tags_field(md)

----------------------------------------------------------------------------
(* The PDF info dictionaries the runs are given *)

\* an optional entry of the info dictionary: <<>> is a missing key, <<v>> a value
Entry(key, opt) == IF opt = <<>> THEN EmptyDict ELSE (key :> opt[1])

MakePdf(a, t, s, c, k) ==
    Entry("/Author", a) @@ Entry("/Title", t) @@ Entry("/Subject", s)
    @@ Entry("/CreationDate", c) @@ Entry("/Keywords", k)

Opt(S) == {<<>>} \cup {<<v>> : v \in S}

GoodDate == <<"D", ":", "1", "9", "6", "1", "1", "0", "2", "7",
              "1", "2", "0", "0", "0", "0">>

BadDate == <<"D", ":", "B", "A", "D", "V", "A", "L", "U", "E", "0", "0", "0", "0">>

DatePrefixes == {<<>>, <<"D", ":">>}
DateYears == {<<"1", "9", "6", "1">>, <<"2", "0", "2", "4">>, <<"0", "0", "0", "0">>}
DateMonths == {<<"0", "2">>, <<"1", "0">>, <<"1", "3">>}
DateDays == {<<"2", "7">>, <<"2", "9">>, <<"3", "0">>}
DateTimes == {<<"1", "2", "0", "0", "0", "0">>, <<"1", "2", "0", "0", "0">>,
              <<"1", "2", "0", "0">>, <<"1", "2", "6", "0", "0", "0">>,
              <<"1", "2", "0", "0", "6", "0">>}
DateSuffixes == {<<>>, <<"Z">>, <<"+", "0", "5", "'", "0", "0", "'">>}

Dates ==
    {p \o y \o m \o d \o t \o z : p \in DatePrefixes, y \in DateYears, m \in DateMonths,
                                  d \in DateDays, t \in DateTimes, z \in DateSuffixes}
    \cup {GoodDate, BadDate, <<>>}

KwAlphabet == {"a", ",", " "}

KwSample == <<"a", ",", " ", "b", " ", ",", ",", "c">>

KeywordStrings == UNION {[1..n -> KwAlphabet] : n \in 0..MaxKwLen} \cup {KwSample}

Authors == {<<>>, <<"A">>}
Titles == {<<>>, <<" ">>, <<"T">>}
Subjects == {<<"S">>, <<" ", "S", " ">>}

\* every combination of author, title and subject with a few dates and keywords,
\* and every date and every keyword string with a few of the other fields
ExtractPdfs ==
    {MakePdf(a, t, s, c, k) :
        a \in Opt(Authors), t \in Opt(Titles), s \in Opt(Subjects),
        c \in Opt({GoodDate, BadDate}), k \in Opt({<<"a">>})}
    \cup {MakePdf(a, t, <<>>, c, k) :
        a \in Opt({<<"A">>}), t \in Opt({<<"T">>}), c \in Opt(Dates), k \in Opt({<<"a">>})}
    \cup {MakePdf(a, t, <<>>, c, k) :
        a \in Opt({<<"A">>}), t \in Opt({<<"T">>}), c \in Opt({GoodDate, BadDate}),
        k \in Opt(KeywordStrings)}

\* the documents of the synchronisation runs
SyncKeywords == {<<"a">>, <<"a", ",", "b">>, <<"a", ",", "a">>, <<",">>}

SyncPdfs ==
    {MakePdf(a, tc[1], <<>>, tc[2], k) :
        a \in Opt({<<"A">>}), tc \in {<<<<>>, <<>>>>, <<<<<<"T">>>>, <<GoodDate>>>>},
        k \in Opt(SyncKeywords)}

----------------------------------------------------------------------------
(* The remote service and the HTTP exchanges *)

\* how an HTTP exchange ends: a 2xx response with the JSON body of the remote
\* contract, a non-2xx response, a 2xx response whose body is not that JSON,
\* or a requests.exceptions.RequestException
Results == {"ok", "status_error", "malformed", "exception"}

Fault(r) == IF r = "ok" THEN 0 ELSE 1

Req(method, kind, name, result, found, payload) ==
    [method |-> method, kind |-> kind, name |-> name, result |-> result,
     found |-> found, payload |-> payload]

NoEntity == [id |-> 0, name |-> <<>>]

XTag == [id |-> 1, name |-> <<"x">>]
ATag == [id |-> 2, name |-> <<"a">>]
ACorr == [id |-> 3, name |-> <<"A">>]

Matches(entities, name) == {e \in entities : e.name = name}

\* set(l) of a list
SetOf(l) == {l[i] : i \in 1..Len(l)}

\* list(s) of a set of ids: each id once (here in increasing order)
RECURSIVE ListOf(_)
ListOf(s) ==
    IF s = {} THEN <<>>
    ELSE LET m == CHOOSE m \in s : \A n \in s : m <= n
         IN  <<m>> \o ListOf(s \ {m})

----------------------------------------------------------------------------
(* SimplePaperlessAPI *)

\* get_document_by_id: the document of the response, or a document without tags
get_document_by_id(r, remote_tags) ==
    IF r = "ok" THEN ("tags" :> ListOf(remote_tags)) ELSE ("tags" :> <<>>)

\* The body shared by get_or_create_correspondent and get_or_create_tag: g is
\* how the GET ends, hit the first result of a successful lookup, p how the POST
\* ends, fresh the id the remote service gives a created entity.  id = 0 is
\* None; raised is an exception leaving the function.
find_or_create(entities, kind, name, g, hit, p, fresh) ==
    LET lookup == Req("GET", kind, name, g, g = "ok" /\ hit # NoEntity, EmptyDict)
        create == Req("POST", kind, name, p, FALSE, EmptyDict)
    IN  IF g \in {"exception", "malformed"}
        THEN [raised |-> TRUE, id |-> 0, entities |-> entities,
              reqs |-> <<lookup>>, nfaults |-> 1]
        ELSE IF g = "ok" /\ hit # NoEntity
        THEN [raised |-> FALSE, id |-> hit.id, entities |-> entities,
              reqs |-> <<lookup>>, nfaults |-> 0]
        ELSE IF p = "ok"
        THEN [raised |-> FALSE, id |-> fresh,
              entities |-> entities \cup {[id |-> fresh, name |-> name]},
              reqs |-> <<lookup, create>>, nfaults |-> Fault(g)]
        ELSE [raised |-> p # "status_error", id |-> 0, entities |-> entities,
              reqs |-> <<lookup, create>>, nfaults |-> Fault(g) + 1]

get_or_create_correspondent(entities, name, g, hit, p, fresh) ==
    find_or_create(entities, "correspondents", name, g, hit, p, fresh)

get_or_create_tag(entities, name, g, hit, p, fresh) ==
    find_or_create(entities, "tags", name, g, hit, p, fresh)

\* the exchanges a find-or-create for name can have with the remote service
Exchanges(entities, name) ==
    {x \in [g : Results, p : Results, hit : Matches(entities, name) \cup {NoEntity}] :
        /\ (x.hit = NoEntity) <=> (x.g # "ok" \/ Matches(entities, name) = {})
        /\ (x.g \in {"exception", "malformed"} \/ x.hit # NoEntity) => x.p = "ok"}

----------------------------------------------------------------------------
(* __main__: one run of the script, step by step *)

NoDoc == "tags" :> <<>>

\* the state of a run before its first statement
Fresh ==
    /\ pc = "main"
    /\ metadata = EmptyDict
    /\ doc = NoDoc
    /\ updates = EmptyDict
    /\ existing_tags = {}
    /\ new_tag_ids = <<>>
    /\ idx = 1
    /\ reqs = <<>>
    /\ outcome = "running"
    /\ exit_code = 0

Init ==
    /\ pdf \in SyncPdfs
    /\ has_token \in BOOLEAN
    /\ is_pdf \in BOOLEAN
    /\ Fresh
    /\ srv_tags \in {{XTag}, {XTag, ATag}}
    /\ srv_corrs \in {{}, {ACorr}}
    /\ srv_doc_tags \in {{}, {XTag.id}}
    /\ next_id = ACorr.id + 1
    /\ runs = 1
    /\ faults = 0

Local == <<metadata, doc, updates, existing_tags, new_tag_ids, idx>>
Remote == <<srv_tags, srv_corrs, srv_doc_tags, next_id>>
Env == <<pdf, has_token, is_pdf, runs>>

\* the run ends: its last log line and its exit status
Finish(how, code) ==
    /\ pc' = "done"
    /\ outcome' = how
    /\ exit_code' = code

\* lines 172-194 and 249-252: the environment, the .pdf test, the extraction
\* (DOCUMENT_ID and DOCUMENT_SOURCE_PATH are set; exit(1) of line 182 is not
\* caught by the handler of line 254)
Main ==
    /\ pc = "main"
    /\ IF ~has_token
       THEN Finish("no_token", 1) /\ UNCHANGED metadata
       ELSE IF ~is_pdf
       THEN Finish("skipped_non_pdf", 0) /\ UNCHANGED metadata
       ELSE /\ metadata' = extract_pdf_metadata(pdf)
            /\ IF DOMAIN metadata' = {}
               THEN Finish("no_metadata", 0)
               ELSE pc' = "get_document" /\ UNCHANGED <<outcome, exit_code>>
    /\ UNCHANGED <<doc, updates, existing_tags, new_tag_ids, idx, reqs, faults>>
    /\ UNCHANGED <<Remote, Env>>

\* line 198
GetDocument ==
    /\ pc = "get_document"
    /\ \E r \in Results :
        /\ faults + Fault(r) <= MaxFaults
        /\ doc' = get_document_by_id(r, srv_doc_tags)
        /\ reqs' = Append(reqs, Req("GET", "documents", <<>>, r, FALSE, EmptyDict))
        /\ faults' = faults + Fault(r)
    /\ pc' = "correspondent"
    /\ UNCHANGED <<metadata, updates, existing_tags, new_tag_ids, idx, outcome, exit_code>>
    /\ UNCHANGED <<Remote, Env>>

\* lines 204-211; an exception leaves through the handler of lines 254-256
ResolveCorrespondent ==
    /\ pc = "correspondent"
    /\ IF truthy(metadata, "correspondent")
       THEN \E x \in Exchanges(srv_corrs, metadata["correspondent"]) :
              LET r == get_or_create_correspondent(srv_corrs, metadata["correspondent"],
                                                   x.g, x.hit, x.p, next_id)
              IN  /\ faults + r.nfaults <= MaxFaults
                  /\ faults' = faults + r.nfaults
                  /\ reqs' = reqs \o r.reqs
                  /\ srv_corrs' = r.entities
                  /\ next_id' = IF r.entities = srv_corrs THEN next_id ELSE next_id + 1
                  /\ IF r.raised
                     THEN Finish("exception", 1) /\ UNCHANGED updates
                     ELSE /\ updates' = IF r.id # 0
                                        THEN setitem(updates, "correspondent", r.id)
                                        ELSE updates
                          /\ pc' = "fields"
                          /\ UNCHANGED <<outcome, exit_code>>
       ELSE /\ pc' = "fields"
            /\ UNCHANGED <<updates, reqs, faults, srv_corrs, next_id, outcome, exit_code>>
    /\ UNCHANGED <<metadata, doc, existing_tags, new_tag_ids, idx>>
    /\ UNCHANGED <<srv_tags, srv_doc_tags, Env>>

\* lines 213-219
PassThroughFields ==
    /\ pc = "fields"
    /\ LET with_title == IF truthy(metadata, "title")
                         THEN setitem(updates, "title", metadata["title"])
                         ELSE updates
       IN  updates' = IF truthy(metadata, "created")
                      THEN setitem(with_title, "created", metadata["created"])
                      ELSE with_title
    /\ pc' = "tags"
    /\ UNCHANGED <<metadata, doc, existing_tags, new_tag_ids, idx, reqs, outcome,
                   exit_code, faults>>
    /\ UNCHANGED <<Remote, Env>>

\* lines 221-226
BeginTags ==
    /\ pc = "tags"
    /\ IF truthy(metadata, "tags")
       THEN /\ existing_tags' = SetOf(doc["tags"])
            /\ new_tag_ids' = <<>>
            /\ idx' = 1
            /\ pc' = "tag_loop"
       ELSE /\ pc' = "dispatch"
            /\ UNCHANGED <<existing_tags, new_tag_ids, idx>>
    /\ UNCHANGED <<metadata, doc, updates, reqs, outcome, exit_code, faults>>
    /\ UNCHANGED <<Remote, Env>>

\* lines 227-233, one turn of the loop
ResolveTag ==
    /\ pc = "tag_loop"
    /\ idx <= Len(metadata["tags"])
    /\ \E x \in Exchanges(srv_tags, metadata["tags"][idx]) :
         LET r == get_or_create_tag(srv_tags, metadata["tags"][idx],
                                    x.g, x.hit, x.p, next_id)
         IN  /\ faults + r.nfaults <= MaxFaults
             /\ faults' = faults + r.nfaults
             /\ reqs' = reqs \o r.reqs
             /\ srv_tags' = r.entities
             /\ next_id' = IF r.entities = srv_tags THEN next_id ELSE next_id + 1
             /\ IF r.raised
                THEN Finish("exception", 1) /\ UNCHANGED <<new_tag_ids, idx>>
                ELSE /\ new_tag_ids' = IF r.id # 0 THEN Append(new_tag_ids, r.id)
                                       ELSE new_tag_ids
                     /\ idx' = idx + 1
                     /\ UNCHANGED <<pc, outcome, exit_code>>
    /\ UNCHANGED <<metadata, doc, updates, existing_tags>>
    /\ UNCHANGED <<srv_corrs, srv_doc_tags, Env>>

\* lines 235-237
FinishTags ==
    /\ pc = "tag_loop"
    /\ idx > Len(metadata["tags"])
    /\ updates' = setitem(updates, "tags", ListOf(existing_tags \cup SetOf(new_tag_ids)))
    /\ pc' = "dispatch"
    /\ UNCHANGED <<metadata, doc, existing_tags, new_tag_ids, idx, reqs, outcome,
                   exit_code, faults>>
    /\ UNCHANGED <<Remote, Env>>

\* update_document, lines 93-109: one PATCH; what the remote service does with
\* an accepted payload
Patch(r) ==
    /\ faults + Fault(r) <= MaxFaults
    /\ faults' = faults + Fault(r)
    /\ reqs' = Append(reqs, Req("PATCH", "documents", <<>>, r, FALSE, updates))
    /\ srv_doc_tags' = IF r = "ok" /\ "tags" \in DOMAIN updates
                       THEN SetOf(updates["tags"])
                       ELSE srv_doc_tags
    /\ Finish(IF r = "ok" THEN "update_ok" ELSE "update_failed", 0)

\* Dispatch without the test of line 239: the PATCH is sent for any payload
Dispatch_Unconditional ==
    /\ pc = "dispatch"
    /\ \E r \in Results \ {"malformed"} : Patch(r)
    /\ UNCHANGED <<Local, srv_tags, srv_corrs, next_id, Env>>

\* Dispatch that sends a failed PATCH a second time
Dispatch_Retry ==
    /\ pc = "dispatch"
    /\ IF DOMAIN updates # {}
       THEN \E r \in Results \ {"malformed"} :
              IF r = "ok"
              THEN Patch(r)
              ELSE /\ faults + 1 <= MaxFaults
                   /\ faults' = faults + 1
                   /\ reqs' = reqs \o <<Req("PATCH", "documents", <<>>, r, FALSE, updates),
                                        Req("PATCH", "documents", <<>>, r, FALSE, updates)>>
                   /\ UNCHANGED srv_doc_tags
                   /\ Finish("update_failed", 0)
       ELSE /\ Finish("no_updates", 0)
            /\ UNCHANGED <<reqs, faults, srv_doc_tags>>
    /\ UNCHANGED <<Local, srv_tags, srv_corrs, next_id, Env>>

\* lines 239-248
Dispatch ==
    /\ pc = "dispatch"
    /\ IF DOMAIN updates # {}
       THEN \E r \in Results \ {"malformed"} : Patch(r)
       ELSE /\ Finish("no_updates", 0)
            /\ UNCHANGED <<reqs, faults, srv_doc_tags>>
    /\ UNCHANGED <<Local, srv_tags, srv_corrs, next_id, Env>>

\* the script is run again for the same document
NewRun ==
    /\ pc = "done"
    /\ runs < MaxRuns
    /\ runs' = runs + 1
    /\ pc' = "main"
    /\ metadata' = EmptyDict
    /\ doc' = NoDoc
    /\ updates' = EmptyDict
    /\ existing_tags' = {}
    /\ new_tag_ids' = <<>>
    /\ idx' = 1
    /\ reqs' = <<>>
    /\ outcome' = "running"
    /\ exit_code' = 0
    /\ UNCHANGED <<pdf, has_token, is_pdf, faults, Remote>>

Next ==
    \/ Main
    \/ GetDocument
    \/ ResolveCorrespondent
    \/ PassThroughFields
    \/ BeginTags
    \/ ResolveTag
    \/ FinishTags
    \/ Dispatch
    \/ NewRun

Spec == Init /\ [][Next]_vars

----------------------------------------------------------------------------
(* extract_pdf_metadata on its own, over a wide range of info dictionaries *)

InitExtract ==
    /\ pdf \in ExtractPdfs
    /\ has_token = TRUE
    /\ is_pdf = TRUE
    /\ Fresh
    /\ srv_tags = {}
    /\ srv_corrs = {}
    /\ srv_doc_tags = {}
    /\ next_id = 1
    /\ runs = 1
    /\ faults = 0

\* line 191
Extract ==
    /\ pc = "main"
    /\ metadata' = extract_pdf_metadata(pdf)
    /\ pc' = "extracted"
    /\ UNCHANGED <<doc, updates, existing_tags, new_tag_ids, idx, reqs, outcome,
                   exit_code, faults>>
    /\ UNCHANGED <<Remote, Env>>

NextExtract == Extract

SpecExtract == InitExtract /\ [][NextExtract]_vars

----------------------------------------------------------------------------
(* Properties of the synchronisation run *)

Patches == {i \in 1..Len(reqs) : reqs[i].method = "PATCH"}

Lookups(kind) == {i \in 1..Len(reqs) : reqs[i].method = "GET" /\ reqs[i].kind = kind}

\* a request of the run returned the id of a correspondent
CorrResolved ==
    \E i \in 1..Len(reqs) :
        /\ reqs[i].kind = "correspondents"
        /\ reqs[i].result = "ok"
        /\ reqs[i].method = "POST" \/ reqs[i].found

\* the find-or-create of the correspondent ran and returned no id
CorrFailed == Lookups("correspondents") # {} /\ ~CorrResolved

\* a find-or-create of some keyword ran and returned no id
SomeTagFailed == Len(new_tag_ids) < Cardinality(Lookups("tags"))

Dispatched == pc = "done" /\ outcome \in {"no_updates", "update_ok", "update_failed"}

\* C1: when the metadata has keywords, the tag list about to be sent in the
\* PATCH is the tag ids the document has in the remote service united with
\* the ids resolved for the keywords, each id once, whatever the outcome of
\* GET /documents/{id}/ was (so a tag X of the document is never removed).
C1_MergedTagsSent ==
    pc = "dispatch" /\ truthy(metadata, "tags") =>
        /\ "tags" \in DOMAIN updates
        /\ SetOf(updates["tags"]) = srv_doc_tags \cup SetOf(new_tag_ids)
        /\ Len(updates["tags"]) = Cardinality(SetOf(updates["tags"]))

\* C2: the assembled payload has a key only for a resolved value:
\* correspondent only when find-or-create returned an id, title and created
\* only when the metadata has them, tags only when at least one tag id was
\* resolved for the keywords, and never an empty tag list.
C2_OnlyResolvedFields ==
    pc = "dispatch" =>
        /\ "correspondent" \in DOMAIN updates =>
              truthy(metadata, "correspondent") /\ CorrResolved
        /\ "title" \in DOMAIN updates =>
              truthy(metadata, "title") /\ updates["title"] = metadata["title"]
        /\ "created" \in DOMAIN updates =>
              truthy(metadata, "created") /\ updates["created"] = metadata["created"]
        /\ "tags" \in DOMAIN updates =>
              new_tag_ids # <<>> /\ updates["tags"] # <<>>

\* C3: a PATCH never carries an empty payload, and a run that assembled an
\* empty payload ends as the logged no-op "No updates needed" with exit
\* status 0 and without a PATCH.
C3_EmptyPayloadNoOp ==
    /\ \A i \in Patches : DOMAIN reqs[i].payload # {}
    /\ Dispatched /\ DOMAIN updates = {} =>
          outcome = "no_updates" /\ exit_code = 0 /\ Patches = {}

\* a run with metadata that asked the remote service and ended as the no-op
C3_Witness ==
    /\ pc = "done"
    /\ outcome = "no_updates"
    /\ truthy(metadata, "correspondent")
    /\ CorrFailed
    /\ Patches = {}

\* C4: however the GET or the POST of the correspondent fails, the run does
\* not abort there, the payload has no correspondent key, and a run that
\* ends sends title, created and tags of the metadata in its PATCH.
C4_CorrespondentSoftFailure ==
    CorrFailed =>
        /\ "correspondent" \notin DOMAIN updates
        /\ ~(pc = "done" /\ exit_code # 0 /\ reqs[Len(reqs)].kind = "correspondents")
        /\ pc = "done" /\ exit_code = 0 =>
              \A k \in {"title", "created", "tags"} :
                  truthy(metadata, k) =>
                      \E i \in Patches : k \in DOMAIN reqs[i].payload

\* C5: when find-or-create returns no id for one keyword, find-or-create is
\* still attempted for every keyword of the list and the PATCH is sent with
\* the ids of the keywords that resolved.
C5_KeywordIsolation ==
    pc = "done" /\ SomeTagFailed =>
        /\ Cardinality(Lookups("tags")) = Len(metadata["tags"])
        /\ \E i \in Patches :
              /\ "tags" \in DOMAIN reqs[i].payload
              /\ SetOf(new_tag_ids) \subseteq SetOf(reqs[i].payload["tags"])

UniqueNames(entities) == \A e, f \in entities : e.name = f.name => e = f

\* C6: a POST with name n directly follows a lookup of n that succeeded and
\* found no entity, and the names of the remote entities stay unique.
C6_CreateOnlyIfAbsent ==
    /\ \A i \in 1..Len(reqs) :
          reqs[i].method = "POST" =>
              /\ i > 1
              /\ reqs[i - 1].method = "GET"
              /\ reqs[i - 1].kind = reqs[i].kind
              /\ reqs[i - 1].name = reqs[i].name
              /\ reqs[i - 1].result = "ok"
              /\ ~reqs[i - 1].found
    /\ UniqueNames(srv_tags)
    /\ UniqueNames(srv_corrs)

\* C10: a run issues at most one PATCH; it is the last request of the run,
\* it follows the find-or-create of the correspondent and of every keyword,
\* and a failed PATCH is not sent again.
C10_SinglePatchLast ==
    /\ Cardinality(Patches) <= 1
    /\ \A i \in Patches : i = Len(reqs)
    /\ Patches # {} =>
          /\ truthy(metadata, "correspondent") => Lookups("correspondents") # {}
          /\ truthy(metadata, "tags") =>
                Cardinality(Lookups("tags")) = Len(metadata["tags"])

\* a run with an author and two keywords whose PATCH failed
C10_Witness ==
    /\ pc = "done"
    /\ outcome = "update_failed"
    /\ truthy(metadata, "correspondent")
    /\ truthy(metadata, "tags")
    /\ Len(metadata["tags"]) = 2
    /\ Cardinality(Lookups("tags")) = 2
    /\ reqs[Len(reqs)].method = "PATCH"

----------------------------------------------------------------------------
(* Properties of the extraction *)

NonEmpty(t) == t # <<>>

\* the keyword list: comma-split tokens, trimmed, empty tokens discarded
NormalizedKeywords(s) == SelectSeq(strip_all(split(s, ",")), NonEmpty)

\* C7: the normalized keyword list is the comma-split tokens, trimmed, without
\* the empty ones, in order; when that list is empty the metadata has no
\* keywords field.
C7_KeywordsNormalized ==
    pc = "extracted" /\ "/Keywords" \in DOMAIN pdf =>
        IF NormalizedKeywords(pdf["/Keywords"]) = <<>>
        THEN "tags" \notin DOMAIN metadata
        ELSE /\ "tags" \in DOMAIN metadata
             /\ metadata["tags"] = NormalizedKeywords(pdf["/Keywords"])

\* the value without its D: prefix
WithoutPrefix(s) ==
    IF Len(s) >= 2 /\ SubSeq(s, 1, 2) = <<"D", ":">> THEN SubSeq(s, 3, Len(s)) ELSE s

\* s is YYYYMMDDHHMMSS: 14 digits that are a calendar date and a time of day
IsTimestamp(s) ==
    /\ Len(s) = DateWidth
    /\ AllDigits(s)
    /\ Num(SubSeq(s, 1, 4)) >= 1
    /\ Num(SubSeq(s, 5, 6)) \in 1..12
    /\ Num(SubSeq(s, 7, 8)) \in 1..DaysInMonth(Num(SubSeq(s, 1, 4)), Num(SubSeq(s, 5, 6)))
    /\ Num(SubSeq(s, 9, 10)) \in 0..23
    /\ Num(SubSeq(s, 11, 12)) \in 0..59
    /\ Num(SubSeq(s, 13, 14)) \in 0..59

\* YYYY-MM-DDTHH:MM:SS of the 14 digits
IsoOf(s) ==
    SubSeq(s, 1, 4) \o <<"-">> \o SubSeq(s, 5, 6) \o <<"-">> \o SubSeq(s, 7, 8)
    \o <<"T">> \o SubSeq(s, 9, 10) \o <<":">> \o SubSeq(s, 11, 12)
    \o <<":">> \o SubSeq(s, 13, 14)

\* C8: a CreationDate whose first 14 characters after the D: prefix are not
\* a YYYYMMDDHHMMSS timestamp gives no created field and every other field
\* present in the PDF is still extracted; a well-formed one gives the ISO
\* timestamp of its 14 digits.
C8_CreationDate ==
    pc = "extracted" /\ "/CreationDate" \in DOMAIN pdf =>
        LET s == prefix(WithoutPrefix(pdf["/CreationDate"]), DateWidth)
        IN  IF IsTimestamp(s)
            THEN "created" \in DOMAIN metadata /\ metadata["created"] = IsoOf(s)
            ELSE /\ "created" \notin DOMAIN metadata
                 /\ truthy(pdf, "/Author") => "correspondent" \in DOMAIN metadata
                 /\ truthy(pdf, "/Title") \/ truthy(pdf, "/Subject") =>
                       "title" \in DOMAIN metadata
                 /\ truthy(pdf, "/Keywords") => "tags" \in DOMAIN metadata

\* C9: the title is the Title value when there is a non-empty one, otherwise
\* the trimmed Subject value when there is one, otherwise absent; a title
\* that is present is not empty after trimming.
C9_TitleFallback ==
    pc = "extracted" =>
        /\ IF truthy(pdf, "/Title")
           THEN "title" \in DOMAIN metadata /\ metadata["title"] = pdf["/Title"]
           ELSE IF truthy(pdf, "/Subject")
           THEN "title" \in DOMAIN metadata
                /\ metadata["title"] = strip(pdf["/Subject"])
           ELSE "title" \notin DOMAIN metadata
        /\ "title" \in DOMAIN metadata => strip(metadata["title"]) # <<>>

====
